---- MODULE Spec2Model ----
(***************************************************************************)
(* Supervisor, command dispatch, coordinated move and homing of the        *)
(* 5-motor controller, src/arduino_main/src/main.cpp (firmware v3.0).      *)
(*                                                                         *)
(* Time is kept as elapsed-time registers (millis() minus a stored stamp), *)
(* advanced by TimePasses in quanta of MsPerTick and saturated just above  *)
(* the limit they are compared with.  The planner (GyverPlanner) advances  *)
(* the lead axis by at most StepsPerBurst steps per modelled tick.         *)
(* Positions given by the host are fixed-point hundredths of a unit.       *)
(***************************************************************************)
EXTENDS Integers, Sequences, FiniteSets, TLC

\* ------------------------------------------------------------------------
\* Program constants (main.cpp)
\* ------------------------------------------------------------------------
NUM_MOTORS == 5
NUM_CTRL_PINS == 10
HOMING_TIMEOUT_MS == 30000
MOVE_TIMEOUT_MS == 60000
EMERGENCY_CHECK_INTERVAL == 100
WATCHDOG_TIMEOUT_MS == 600000
BACKOFF_TIMEOUT_MS == 5000
ESCAPE_STEPS == 500
HOMING_AXES == 4
MAX_COMMAND_LENGTH == 64
WASTE == 3
\* src/arduino (the modular firmware): the clamp steppers and clampZeroMotors()
MOTOR_E0 == 3
MOTOR_E1 == 4
STEPPER_E0 == 3
STEPPER_E1 == 4
CLAMP_SENSOR_PIN == 15
HOMING_TIMEOUT == 30000
CLAMP_ESCAPE_STEPS == 200
CLAMP_ESCAPE_TIMEOUT == 5000
CLAMP_SEEK_STEPS == 5000
CLAMP_BACKOFF_POSITION == 100
CLAMP_BACKOFF_TIMEOUT == 10000
\* planner.setMaxSpeed(500), planner.setAcceleration(500) in setup()
PLANNER_MAX_SPEED == 500
PLANNER_ACCELERATION == 500

\* ------------------------------------------------------------------------
\* Bounds of the model
\* ------------------------------------------------------------------------
MsPerTick == 300000
StepsPerBurst == 30000
\* the longest line the host sends byte by byte
MaxLineBytes == 66
\* the most steps a stepper of the clamp makes in one pass of a polling loop
ClampBurst == 1250
ClampHomeDepth == 16000

Motors == 0 .. (NUM_MOTORS - 1)
CtrlPins == 0 .. (NUM_CTRL_PINS - 1)

\* motors[] table, one tuple per attribute, index 1..5 for motor 0..4
maxSpeed == <<500, 200, 1000, 2000, 2000>>
homePin == <<14, 2, 2, 15, 15>>
isNPN == <<FALSE, TRUE, TRUE, TRUE, TRUE>>
alwaysOn == <<TRUE, TRUE, TRUE, FALSE, FALSE>>
stepsPerUnit == <<40, 80, 200, 200, 200>>
maxSteps == <<16000, 16000, 60000, 16000, 16000>>
homeBackoff == <<1000, 200, 100, 200, 200>>
preBackoff == <<1000, 0, 60, 0, 0>>
\* envelope in hundredths of a unit
minPosition == <<-20000, -10000, -30000, -5000, -5000>>
maxPosition == <<20000, 10000, 0, 5000, 5000>>

HomePins == {homePin[m + 1] : m \in Motors}

VARIABLES
    \* SystemState
    emergencyStop, commandInProgress, homingActive, motorsEnabled, lastError,
    \* TimeoutManager and the other time stamps, as elapsed times
    timeoutActive, timeoutDuration, sinceStart, sinceActivity, sinceCheck,
    sinceBackoff, sinceByte, clockEdge,
    \* pins (homeLevel: the endstop levels at the latest read of the homing in
    \* progress, TRUE = HIGH; the inputs are not read outside homeMotors)
    enablePin, ctrlPin, homeLevel,
    \* steppers[i].pos and the planner
    pos, planner,
    \* control: position in the code, locals of homeMotors
    pc, flags, homed,
    \* serial output of the command being processed (at the top of loop():
    \* of the periodic check of the last iteration), and that command
    resp, cmd,
    \* the serial input: the lines the host has sent that loop() has not read
    \* yet (the UART receive buffer), state.inputBufferPos, and the number of
    \* bytes of the line being read that have arrived before its terminator
    serialRx, inputBufferPos, lineBytes

vars == <<emergencyStop, commandInProgress, homingActive, motorsEnabled, lastError,
          timeoutActive, timeoutDuration, sinceStart, sinceActivity, sinceCheck,
          sinceBackoff, sinceByte, clockEdge,
          enablePin, ctrlPin, homeLevel, pos, planner, pc, flags, homed, resp, cmd,
          serialRx, inputBufferPos, lineBytes>>


\* ------------------------------------------------------------------------
\* Helpers
\* ------------------------------------------------------------------------
Abs(x) == IF x < 0 THEN -x ELSE x
Sgn(x) == IF x < 0 THEN -1 ELSE IF x > 0 THEN 1 ELSE 0
Max2(a, b) == IF a > b THEN a ELSE b
Min2(a, b) == IF a < b THEN a ELSE b

RECURSIVE MaxOver(_, _)
MaxOver(f, S) ==
    IF S = {} THEN 0
    ELSE LET x == CHOOSE y \in S : TRUE
         IN Max2(f[x], MaxOver(f, S \ {x}))

\* (a * b) \div c for 0 <= a, b <= c, without leaving 32-bit integers
MulDiv(a, b, c) ==
    LET t == (a \div 256) * b
    IN (t \div c) * 256 + ((t % c) * 256 + (a % 256) * b) \div c

\* An elapsed time after dt more milliseconds, saturated just above limit.
Elapse(t, limit) == IF t + MsPerTick > limit THEN limit + 1 ELSE t + MsPerTick

\* Serial.println: the response lines of the current command by kind
\* ("RECEIVED", "COMPLETE", "ERROR" for a line that starts with ERROR,
\* "WATCHDOG" for the auto-shutdown announcement, "INFO" for any other line;
\* consecutive INFO lines are kept as one).
Println(r, kind) ==
    IF kind = "INFO" /\ Len(r) > 0 /\ r[Len(r)] = "INFO" THEN r ELSE Append(r, kind)

NoCmd == [name |-> "none"]

AllFalse == [m \in Motors |-> FALSE]
AllLow == [m \in Motors |-> "LOW"]
AllHigh == [m \in Motors |-> "HIGH"]
ZeroPos == [m \in Motors |-> 0]

\* ------------------------------------------------------------------------
\* GyverPlanner, as the firmware uses it: setTarget, tick, ready, brake, reset.
\* status 0 = stopped, 1 = running to the target.  The fields that describe
\* the path are dead once the planner has stopped and are cleared then.
\* ------------------------------------------------------------------------
PlannerIdle(rf) ==
    [status |-> 0, readyF |-> rf, target |-> ZeroPos, start |-> ZeroPos, S |-> 0, step |-> 0]

PlannerSetTarget(p, ps, t) ==
    LET d == [m \in Motors |-> Abs(t[m] - ps[m])]
        S == MaxOver(d, Motors)
    IN IF S = 0
       THEN [p EXCEPT !.readyF = TRUE]
       ELSE [status |-> 1, readyF |-> FALSE, target |-> t, start |-> ps, S |-> S, step |-> 0]

PlannerStepAfterTick(p) == Min2(p.step + StepsPerBurst, p.S)

\* steppers[].pos after planner.tick(): every axis in proportion to the lead axis
PlannerTickPos(p, ps) ==
    IF p.status = 1
    THEN LET n == PlannerStepAfterTick(p)
         IN [m \in Motors |->
                LET d == p.target[m] - p.start[m]
                IN p.start[m] + Sgn(d) * MulDiv(Abs(d), n, p.S)]
    ELSE ps

PlannerTick(p) ==
    IF p.status = 1
    THEN IF PlannerStepAfterTick(p) = p.S
         THEN PlannerIdle(TRUE)
         ELSE [p EXCEPT !.step = PlannerStepAfterTick(p)]
    ELSE p

\* a variant of brake() after which ready() reports the target as reached
PlannerBrakeSetsReady(p) == PlannerIdle(TRUE)

PlannerBrake(p) == PlannerIdle(p.readyF)

\* planner.ready() returns readyF and clears it
PlannerReadyClear(p) == [p EXCEPT !.readyF = FALSE]

\* planner.reset() sets the position counter of every stepper to 0
PlannerResetPos(ps) == ZeroPos

\* ------------------------------------------------------------------------
\* Utility functions of main.cpp
\* ------------------------------------------------------------------------
\* units (hundredths) * stepsPerUnit, converted to int32 (truncation toward 0)
toSteps(m, u) == Sgn(u) * ((Abs(u) * stepsPerUnit[m + 1]) \div 100)

\* a variant with an open envelope: the bounds themselves are refused
validateMotorPositionOpen(m, u) ==
    /\ m < NUM_MOTORS
    /\ u > minPosition[m + 1]
    /\ u < maxPosition[m + 1]

validateMotorPosition(m, u) ==
    /\ m < NUM_MOTORS
    /\ u >= minPosition[m + 1]
    /\ u <= maxPosition[m + 1]

validatePinIndex(i) == i >= 0 /\ i < NUM_CTRL_PINS

\* digitalRead of the home pin (lv: the pin levels, TRUE = HIGH), inverted
\* for an NPN switch
readEndstop(lv, m) ==
    IF isNPN[m + 1] THEN ~lv[homePin[m + 1]] ELSE lv[homePin[m + 1]]

\* the levels the endstop inputs can have at a read by a homing of the axes
\* f (an input that this homing does not read is left at its idle level)
HomeLevels(f) ==
    {lv \in [HomePins -> BOOLEAN] :
        \A h \in HomePins :
            (\A m \in Motors : ~(m < HOMING_AXES /\ f[m] /\ homePin[m + 1] = h)) => lv[h]}

isTimeoutExpired == timeoutActive /\ sinceStart > timeoutDuration

\* a variant of enableAllMotors() without the test of the latch
enableAllMotorsWhileLatched(es, ep, me) ==
    [enablePin |-> AllLow, motorsEnabled |-> TRUE, line |-> "INFO"]

\* enableAllMotors(): refused while the latch is set
enableAllMotors(es, ep, me) ==
    IF es
    THEN [enablePin |-> ep, motorsEnabled |-> me, line |-> "ERROR"]
    ELSE [enablePin |-> AllLow, motorsEnabled |-> TRUE, line |-> "INFO"]

\* a variant that deasserts the enable line of every motor
disableEveryMotor(ep) == [m \in Motors |-> "HIGH"]

\* disableTemporaryMotors(): enable pins after the call
disableTemporaryMotors(ep) ==
    [m \in Motors |-> IF ~alwaysOn[m + 1] THEN "HIGH" ELSE ep[m]]

\* a variant of emergencyStop() that leaves the operation flags as they are
emergencyStopKeepsFlags(p) ==
    /\ emergencyStop' = TRUE
    /\ UNCHANGED <<commandInProgress, homingActive>>
    /\ planner' = PlannerBrake(p)
    /\ enablePin' = AllHigh
    /\ lastError' = "ERROR_EMERGENCY_STOP"

\* a variant of emergencyStop() that powers down the temporary motors only
emergencyStopTemporaryOnly(p) ==
    /\ emergencyStop' = TRUE
    /\ commandInProgress' = FALSE
    /\ homingActive' = FALSE
    /\ planner' = PlannerBrake(p)
    /\ enablePin' = [m \in Motors |-> IF ~alwaysOn[m + 1] THEN "HIGH" ELSE enablePin[m]]
    /\ lastError' = "ERROR_EMERGENCY_STOP"

\* emergencyStop(), given the planner value it brakes
emergencyStopCall(p) ==
    /\ emergencyStop' = TRUE
    /\ commandInProgress' = FALSE
    /\ homingActive' = FALSE
    /\ planner' = PlannerBrake(p)
    /\ enablePin' = AllHigh
    /\ lastError' = "ERROR_EMERGENCY_STOP"

\* a variant of checkEmergency() without the watchdog test
checkEmergencyNoWatchdog(p) ==
    IF isTimeoutExpired
    THEN emergencyStopCall(p)
    ELSE /\ planner' = p
         /\ UNCHANGED <<emergencyStop, commandInProgress, homingActive,
                        enablePin, lastError>>

\* checkEmergency(), given the planner value at the call
checkEmergency(p) ==
    IF sinceActivity > WATCHDOG_TIMEOUT_MS
    THEN emergencyStopCall(p)
    ELSE IF isTimeoutExpired
         THEN emergencyStopCall(p)
         ELSE /\ planner' = p
              /\ UNCHANGED <<emergencyStop, commandInProgress, homingActive,
                             enablePin, lastError>>

\* the lines checkEmergency prints
checkEmergencyLines(r) ==
    IF sinceActivity > WATCHDOG_TIMEOUT_MS
    THEN Println(Println(r, "WATCHDOG"), "INFO")
    ELSE IF isTimeoutExpired THEN Println(r, "INFO") ELSE r

\* controlPin(): control pins after the call
controlPin(cp, i, st) ==
    IF ~validatePinIndex(i) THEN cp
    ELSE [cp EXCEPT ![i] = IF st THEN "HIGH" ELSE "LOW"]

\* ------------------------------------------------------------------------
\* Command lines the host sends (bounded sets of inputs)
\* ------------------------------------------------------------------------
Star == [star |-> TRUE, val |-> 0]
Num(v) == [star |-> FALSE, val |-> v]

\* argument tokens of "move": a number in hundredths of a unit, or "*"
MoveRequests ==
    { <<>>,
      <<Star, Star, Num(-30000)>>,
      <<Num(25000), Star, Star, Star, Star>> }

\* argument tokens of "home"
HomeRequests ==
    { <<>>,
      <<"1", "0", "0", "0", "0">>,
      <<"0", "0", "0", "0", "1">>,
      <<"0", "0", "0", "0", "0">> }

\* 259 is read into a uint8_t and becomes 3
PinIndexInputs == {-1, WASTE, NUM_CTRL_PINS, 259}

PinRequests ==
    {[name |-> "pin", parsed |-> FALSE, index |-> 0, state |-> 0]}
    \cup [name : {"pin"}, parsed : {TRUE}, index : PinIndexInputs, state : {0, 1}]

PrintOnlyCommands == {"status", "help", "version", "read_pins", "unknown"}

\* atof(): "*" is no number and converts to 0.0
Atof(tok) == IF tok.star THEN 0 ELSE tok.val

\* parseMoveCommand(): every token read makes its axis active
parseMoveActive(req) == [m \in Motors |-> m < Len(req)]
parseMovePositions(req) == [m \in Motors |-> IF m < Len(req) THEN Atof(req[m + 1]) ELSE 0]

\* parseHomingFlags(): no argument selects every axis
parseHomingFlags(args) ==
    IF Len(args) = 0
    THEN [m \in Motors |-> TRUE]
    ELSE [m \in Motors |-> m < Len(args) /\ args[m + 1] \in {"1", "true"}]

validateMove(positions, active) ==
    \A m \in Motors : active[m] => validateMotorPosition(m, positions[m])

\* ------------------------------------------------------------------------
\* Initial state: the globals as constructed and the pins as the first part
\* of setup() initialises them (lines 1066-1086)
\* ------------------------------------------------------------------------
Init ==
    /\ emergencyStop = FALSE
    /\ commandInProgress = FALSE
    /\ homingActive = FALSE
    /\ motorsEnabled = TRUE
    /\ lastError = "ERROR_NONE"
    /\ timeoutActive = FALSE
    /\ timeoutDuration = 0
    /\ sinceStart = 0
    /\ sinceActivity = 0
    /\ sinceCheck = 0
    /\ sinceBackoff = 0
    /\ sinceByte = 0
    /\ clockEdge = FALSE
    /\ enablePin = AllHigh
    /\ ctrlPin = [i \in CtrlPins |-> "LOW"]
    /\ homeLevel = [h \in HomePins |-> TRUE]
    /\ pos = ZeroPos
    /\ planner = PlannerIdle(TRUE)
    /\ pc = "setup"
    /\ flags = AllFalse
    /\ homed = AllFalse
    /\ resp = <<>>
    /\ cmd = NoCmd
    /\ serialRx = <<>>
    /\ inputBufferPos = 0
    /\ lineBytes = 0

serialVars == <<serialRx, inputBufferPos, lineBytes>>
timerVars == <<timeoutActive, timeoutDuration, sinceStart>>
homingLocals == <<flags, homed, sinceBackoff>>

\* ------------------------------------------------------------------------
\* Environment
\* ------------------------------------------------------------------------
\* the rest of setup(), lines 1111-1124: the planner is configured, the
\* motors are enabled and the positions are reset
Setup ==
    LET e == enableAllMotors(emergencyStop, enablePin, motorsEnabled)
    IN /\ pc = "setup"
       /\ enablePin' = e.enablePin
       /\ motorsEnabled' = e.motorsEnabled
       /\ pos' = PlannerResetPos(pos)
       /\ pc' = "loop"
       /\ UNCHANGED <<emergencyStop, commandInProgress, homingActive, lastError, timerVars,
                      sinceActivity, sinceCheck, sinceBackoff, sinceByte, clockEdge, ctrlPin,
                      homeLevel, planner, flags, homed, resp, cmd,
                      serialVars>>

\* places where the firmware waits: the top of loop() and the polling loops
WaitingPlaces ==
    {"loop", "move", "moveCheck", "pre", "escape", "seek", "final",
     "clampEscape", "clampSeek", "clampBackoff"}

\* millis() advances by a quantum while the firmware waits; the firmware
\* executes at least one step per quantum
TimePasses ==
    /\ ~clockEdge
    /\ pc \in WaitingPlaces
    /\ clockEdge' = TRUE
    /\ sinceActivity' = Elapse(sinceActivity, WATCHDOG_TIMEOUT_MS)
    /\ sinceByte' = Elapse(sinceByte, WATCHDOG_TIMEOUT_MS)
    /\ sinceCheck' = Elapse(sinceCheck, EMERGENCY_CHECK_INTERVAL)
    /\ sinceStart' = IF timeoutActive THEN Elapse(sinceStart, timeoutDuration) ELSE sinceStart
    /\ sinceBackoff' = IF pc \in {"pre", "escape", "final"}
                       THEN Elapse(sinceBackoff, BACKOFF_TIMEOUT_MS) ELSE sinceBackoff
    /\ UNCHANGED <<emergencyStop, commandInProgress, homingActive, motorsEnabled, lastError,
                   timeoutActive, timeoutDuration, enablePin, ctrlPin, homeLevel, pos,
                   planner, pc, flags, homed, resp, cmd,
                   serialVars>>

\* ------------------------------------------------------------------------
\* loop(): a command line has arrived and is dispatched (lines 1176-1195)
\* ------------------------------------------------------------------------
Accept(c) ==
    /\ pc = "loop"
    /\ ~commandInProgress
    /\ sinceActivity' = 0
    /\ sinceByte' = 0
    /\ clockEdge' = FALSE
    /\ cmd' = c
    /\ lineBytes = 0
    /\ serialRx # <<>> => c.name = Head(serialRx)
    /\ serialRx' = <<>>
    /\ UNCHANGED <<inputBufferPos, lineBytes>>

\* a variant of "reset" that clears lastError whether or not the latch is set
CmdResetClearsError ==
    /\ Accept([name |-> "reset"])
    /\ emergencyStop' = FALSE
    /\ lastError' = "ERROR_NONE"
    /\ resp' = IF emergencyStop THEN <<"INFO">> ELSE <<>>
    /\ pc' = "tail"
    /\ UNCHANGED <<commandInProgress, homingActive, motorsEnabled, timerVars, sinceCheck,
                   homingLocals, enablePin, ctrlPin, homeLevel, pos, planner>>

CmdReset ==
    /\ Accept([name |-> "reset"])
    /\ IF emergencyStop
       THEN /\ emergencyStop' = FALSE
            /\ lastError' = "ERROR_NONE"
            /\ resp' = <<"INFO">>
       ELSE /\ UNCHANGED <<emergencyStop, lastError>>
            /\ resp' = <<>>
    /\ pc' = "tail"
    /\ UNCHANGED <<commandInProgress, homingActive, motorsEnabled, timerVars, sinceCheck,
                   homingLocals, enablePin, ctrlPin, homeLevel, pos, planner>>

CmdPrintOnly(n) ==
    /\ Accept([name |-> n])
    /\ resp' = <<"INFO">>
    /\ pc' = "tail"
    /\ UNCHANGED <<emergencyStop, commandInProgress, homingActive, motorsEnabled, lastError,
                   timerVars, sinceCheck, homingLocals, enablePin, ctrlPin, homeLevel,
                   pos, planner>>

CmdPin(c) ==
    LET pinIndex == c.index % 256
    IN /\ Accept(c)
       /\ IF c.parsed /\ validatePinIndex(pinIndex)
          THEN /\ ctrlPin' = controlPin(ctrlPin, pinIndex, c.state # 0)
               /\ resp' = <<"INFO">>
          ELSE /\ ctrlPin' = ctrlPin
               /\ resp' = <<"ERROR">>
       /\ pc' = "tail"
       /\ UNCHANGED <<emergencyStop, commandInProgress, homingActive, motorsEnabled,
                      lastError, timerVars, sinceCheck, homingLocals, enablePin, homeLevel,
                      pos, planner>>

CmdEmergency ==
    /\ Accept([name |-> "emergency"])
    /\ emergencyStopCall(planner)
    /\ resp' = <<"INFO">>
    /\ pc' = "tail"
    /\ UNCHANGED <<motorsEnabled, timerVars, sinceCheck, homingLocals, ctrlPin, homeLevel, pos>>

\* a variant of "enable" that also releases the latch
CmdEnableClearsLatch ==
    /\ Accept([name |-> "enable"])
    /\ enablePin' = AllLow
    /\ motorsEnabled' = TRUE
    /\ emergencyStop' = FALSE
    /\ resp' = <<"INFO">>
    /\ pc' = "tail"
    /\ UNCHANGED <<commandInProgress, homingActive, lastError, timerVars,
                   sinceCheck, homingLocals, ctrlPin, homeLevel, pos, planner>>

CmdEnable ==
    LET e == enableAllMotors(emergencyStop, enablePin, motorsEnabled)
    IN /\ Accept([name |-> "enable"])
       /\ enablePin' = e.enablePin
       /\ motorsEnabled' = e.motorsEnabled
       /\ resp' = <<e.line>>
       /\ pc' = "tail"
       /\ UNCHANGED <<emergencyStop, commandInProgress, homingActive, lastError, timerVars,
                      sinceCheck, homingLocals, ctrlPin, homeLevel, pos, planner>>

CmdDisable ==
    /\ Accept([name |-> "disable"])
    /\ enablePin' = disableTemporaryMotors(enablePin)
    /\ motorsEnabled' = FALSE
    /\ resp' = <<>>
    /\ pc' = "tail"
    /\ UNCHANGED <<emergencyStop, commandInProgress, homingActive, lastError, timerVars,
                   sinceCheck, homingLocals, ctrlPin, homeLevel, pos, planner>>

CmdCheckOverflow ==
    /\ Accept([name |-> "check_overflow"])
    /\ lastError' = IF ctrlPin[WASTE] = "HIGH" THEN "ERROR_RESERVOIR_OVERFLOW" ELSE lastError
    /\ resp' = <<"INFO">>
    /\ pc' = "tail"
    /\ UNCHANGED <<emergencyStop, commandInProgress, homingActive, motorsEnabled, timerVars,
                   sinceCheck, homingLocals, enablePin, ctrlPin, homeLevel, pos, planner>>

\* ------------------------------------------------------------------------
\* coordinatedMove()
\* ------------------------------------------------------------------------
\* a variant of "move" that enables the motors before it validates the targets
CmdMoveEnablesFirst(req) ==
    LET active == parseMoveActive(req)
        positions == parseMovePositions(req)
        e == enableAllMotors(emergencyStop, enablePin, motorsEnabled)
        targets == [m \in Motors |-> IF active[m] THEN toSteps(m, positions[m]) ELSE pos[m]]
        hasMovement == \E m \in Motors : active[m] /\ targets[m] # pos[m]
    IN /\ Accept([name |-> "move", args |-> req])
       /\ IF emergencyStop \/ homingActive
          THEN /\ resp' = <<"ERROR">>
               /\ pc' = "tail"
               /\ UNCHANGED <<commandInProgress, motorsEnabled, lastError, timerVars,
                              enablePin, planner>>
          ELSE IF ~validateMove(positions, active)
          THEN /\ lastError' = "ERROR_INVALID_POSITION"
               /\ resp' = <<"ERROR">>
               /\ pc' = "tail"
               /\ enablePin' = e.enablePin
               /\ motorsEnabled' = e.motorsEnabled
               /\ UNCHANGED <<commandInProgress, timerVars, planner>>
          ELSE /\ enablePin' = e.enablePin
               /\ motorsEnabled' = e.motorsEnabled
               /\ lastError' = lastError
               /\ IF ~hasMovement
                  THEN /\ commandInProgress' = FALSE
                       /\ resp' = <<"INFO", "COMPLETE">>
                       /\ pc' = "tail"
                       /\ UNCHANGED <<timerVars, planner>>
                  ELSE /\ commandInProgress' = TRUE
                       /\ planner' = PlannerSetTarget(planner, pos, targets)
                       /\ timeoutActive' = TRUE
                       /\ timeoutDuration' = MOVE_TIMEOUT_MS
                       /\ sinceStart' = 0
                       /\ resp' = <<"INFO">>
                       /\ pc' = "move"
       /\ UNCHANGED <<emergencyStop, homingActive, sinceCheck, homingLocals, ctrlPin,
                      homeLevel, pos>>

\* "move ...": parseMoveCommand, then coordinatedMove up to the move loop
CmdMove(req) ==
    LET active == parseMoveActive(req)
        positions == parseMovePositions(req)
        e == enableAllMotors(emergencyStop, enablePin, motorsEnabled)
        targets == [m \in Motors |-> IF active[m] THEN toSteps(m, positions[m]) ELSE pos[m]]
        hasMovement == \E m \in Motors : active[m] /\ targets[m] # pos[m]
    IN /\ Accept([name |-> "move", args |-> req])
       /\ IF emergencyStop \/ homingActive
          THEN /\ resp' = <<"ERROR">>
               /\ pc' = "tail"
               /\ UNCHANGED <<commandInProgress, motorsEnabled, lastError, timerVars,
                              enablePin, planner>>
          ELSE IF ~validateMove(positions, active)
          THEN /\ lastError' = "ERROR_INVALID_POSITION"
               /\ resp' = <<"ERROR">>
               /\ pc' = "tail"
               /\ UNCHANGED <<commandInProgress, motorsEnabled, timerVars, enablePin, planner>>
          ELSE /\ enablePin' = e.enablePin
               /\ motorsEnabled' = e.motorsEnabled
               /\ lastError' = lastError
               /\ IF ~hasMovement
                  THEN /\ commandInProgress' = FALSE
                       /\ resp' = <<"INFO", "COMPLETE">>
                       /\ pc' = "tail"
                       /\ UNCHANGED <<timerVars, planner>>
                  ELSE /\ commandInProgress' = TRUE
                       /\ planner' = PlannerSetTarget(planner, pos, targets)
                       /\ timeoutActive' = TRUE
                       /\ timeoutDuration' = MOVE_TIMEOUT_MS
                       /\ sinceStart' = 0
                       /\ resp' = <<"INFO">>
                       /\ pc' = "move"
       /\ UNCHANGED <<emergencyStop, homingActive, sinceCheck, homingLocals, ctrlPin,
                      homeLevel, pos>>

\* a variant of the move loop whose abort leaves the time-out running
MoveLoopKeepsTimeout ==
    /\ pc = "move"
    /\ clockEdge' = FALSE
    /\ IF planner.readyF
       THEN /\ planner' = PlannerReadyClear(planner)
            /\ timeoutActive' = FALSE
            /\ sinceStart' = 0
            /\ enablePin' = disableTemporaryMotors(enablePin)
            /\ motorsEnabled' = FALSE
            /\ commandInProgress' = FALSE
            /\ resp' = Println(Println(resp, "INFO"), "COMPLETE")
            /\ pc' = "tail"
            /\ pos' = pos
       ELSE /\ pos' = PlannerTickPos(planner, pos)
            /\ UNCHANGED <<enablePin, motorsEnabled, resp>>
            /\ IF emergencyStop \/ isTimeoutExpired
               THEN /\ planner' = PlannerBrake(PlannerTick(planner))
                    /\ UNCHANGED <<timeoutActive, sinceStart>>
                    /\ commandInProgress' = FALSE
                    /\ pc' = "tail"
               ELSE /\ planner' = PlannerTick(planner)
                    /\ UNCHANGED <<timeoutActive, sinceStart, commandInProgress>>
                    /\ pc' = "moveCheck"
    /\ UNCHANGED <<emergencyStop, homingActive, lastError, timeoutDuration, sinceActivity,
                   sinceCheck, sinceByte, homingLocals, ctrlPin, homeLevel, cmd,
                   serialVars>>

\* one pass of the move loop, lines 823-833, or the code after the loop
MoveLoop ==
    /\ pc = "move"
    /\ clockEdge' = FALSE
    /\ IF planner.readyF
       THEN /\ planner' = PlannerReadyClear(planner)
            /\ timeoutActive' = FALSE
            /\ sinceStart' = 0
            /\ enablePin' = disableTemporaryMotors(enablePin)
            /\ motorsEnabled' = FALSE
            /\ commandInProgress' = FALSE
            /\ resp' = Println(Println(resp, "INFO"), "COMPLETE")
            /\ pc' = "tail"
            /\ pos' = pos
       ELSE /\ pos' = PlannerTickPos(planner, pos)
            /\ UNCHANGED <<enablePin, motorsEnabled, resp>>
            /\ IF emergencyStop \/ isTimeoutExpired
               THEN /\ planner' = PlannerBrake(PlannerTick(planner))
                    /\ timeoutActive' = FALSE
                    /\ sinceStart' = 0
                    /\ commandInProgress' = FALSE
                    /\ pc' = "tail"
               ELSE /\ planner' = PlannerTick(planner)
                    /\ UNCHANGED <<timeoutActive, sinceStart, commandInProgress>>
                    /\ pc' = "moveCheck"
    /\ UNCHANGED <<emergencyStop, homingActive, lastError, timeoutDuration, sinceActivity,
                   sinceCheck, sinceByte, homingLocals, ctrlPin, homeLevel, cmd,
                   serialVars>>

\* lines 835-838: checkEmergency when millis() is a multiple of the interval
MoveCheck(due) ==
    /\ pc = "moveCheck"
    /\ clockEdge' = FALSE
    /\ IF due
       THEN /\ checkEmergency(planner)
            /\ resp' = checkEmergencyLines(resp)
       ELSE UNCHANGED <<emergencyStop, commandInProgress, homingActive, enablePin,
                        lastError, planner, resp>>
    /\ pc' = "move"
    /\ UNCHANGED <<motorsEnabled, timerVars, sinceActivity, sinceCheck, sinceByte,
                   homingLocals, ctrlPin, homeLevel, pos, cmd,
                   serialVars>>

\* ------------------------------------------------------------------------
\* homeMotors() and performBackoff()
\* ------------------------------------------------------------------------
HomingAxes == {m \in Motors : m < HOMING_AXES}

\* lines 1046-1055: clearTimeout, planner.reset, flags, COMPLETE
HomingCleanup(ps) ==
    /\ timeoutActive' = FALSE
    /\ sinceStart' = 0
    /\ pos' = PlannerResetPos(ps)
    /\ homingActive' = FALSE
    /\ commandInProgress' = FALSE
    /\ flags' = AllFalse
    /\ homed' = AllFalse
    /\ homeLevel' = [h \in HomePins |-> TRUE]
    /\ resp' = Println(resp, "COMPLETE")
    /\ pc' = "tail"

\* "home ...": parseHomingFlags, then homeMotors up to the first loop
CmdHome(args) ==
    LET f == parseHomingFlags(args)
        e == enableAllMotors(emergencyStop, enablePin, motorsEnabled)
        backs == {m \in HomingAxes : f[m] /\ preBackoff[m + 1] > 0}
        positions == [m \in Motors |-> IF m \in backs THEN pos[m] + preBackoff[m + 1] ELSE pos[m]]
    IN /\ Accept([name |-> "home", args |-> args])
       /\ IF emergencyStop \/ ~(\E m \in Motors : f[m])
          THEN /\ resp' = <<"ERROR">>
               /\ pc' = "tail"
               /\ UNCHANGED <<homingActive, commandInProgress, motorsEnabled, timerVars,
                              enablePin, planner, flags, sinceBackoff>>
          ELSE /\ homingActive' = TRUE
               /\ commandInProgress' = TRUE
               /\ enablePin' = e.enablePin
               /\ motorsEnabled' = e.motorsEnabled
               /\ timeoutActive' = TRUE
               /\ timeoutDuration' = HOMING_TIMEOUT_MS
               /\ sinceStart' = 0
               /\ flags' = f
               /\ resp' = <<"INFO">>
               /\ sinceBackoff' = 0
               /\ IF backs # {} /\ ~emergencyStop
                  THEN /\ planner' = PlannerSetTarget(planner, pos, positions)
                       /\ pc' = "pre"
                  ELSE /\ planner' = planner
                       /\ pc' = "phase2"
       /\ UNCHANGED <<emergencyStop, lastError, sinceCheck, homed, ctrlPin, homeLevel, pos>>

\* one pass of the loop of performBackoff (lines 879-889), or its exit
BackoffLoop(at, next) ==
    /\ pc = at
    /\ clockEdge' = FALSE
    /\ IF planner.readyF
       THEN /\ planner' = PlannerBrake(PlannerReadyClear(planner))
            /\ pos' = pos
            /\ sinceBackoff' = 0
            /\ pc' = next
       ELSE /\ pos' = PlannerTickPos(planner, pos)
            /\ IF emergencyStop \/ sinceBackoff > BACKOFF_TIMEOUT_MS
               THEN /\ planner' = PlannerBrake(PlannerTick(planner))
                    /\ sinceBackoff' = 0
                    /\ pc' = next
               ELSE /\ planner' = PlannerTick(planner)
                    /\ sinceBackoff' = sinceBackoff
                    /\ pc' = at
    /\ UNCHANGED <<emergencyStop, commandInProgress, homingActive, motorsEnabled, lastError,
                   timerVars, sinceActivity, sinceCheck, sinceByte, enablePin, ctrlPin,
                   homeLevel, flags, homed, resp, cmd,
                   serialVars>>

\* a variant of phase 2 that reads the endstops but starts no escape
Phase2SkipsEscape(lv) ==
    /\ pc = "phase2"
    /\ clockEdge' = FALSE
    /\ pc' = "phase3"
    /\ sinceBackoff' = 0
    /\ homeLevel' = lv
    /\ UNCHANGED <<emergencyStop, commandInProgress, homingActive, motorsEnabled,
                   lastError, timerVars, sinceActivity, sinceCheck, sinceByte, enablePin,
                   ctrlPin, pos, flags, homed, cmd, planner, resp, serialVars>>

\* phase 2, lines 956-971: move away from an endstop that reads triggered
Phase2(lv) ==
    LET away == {m \in HomingAxes : flags[m] /\ readEndstop(lv, m)}
        positions == [m \in Motors |-> IF m \in away THEN pos[m] + ESCAPE_STEPS ELSE pos[m]]
    IN /\ pc = "phase2"
       /\ clockEdge' = FALSE
       /\ IF ~emergencyStop /\ away # {}
          THEN /\ planner' = PlannerSetTarget(planner, pos, positions)
               /\ resp' = Println(resp, "INFO")
               /\ pc' = "escape"
          ELSE /\ UNCHANGED <<planner, resp>>
               /\ pc' = "phase3"
       /\ sinceBackoff' = 0
       /\ homeLevel' = lv
       /\ UNCHANGED <<emergencyStop, commandInProgress, homingActive, motorsEnabled,
                      lastError, timerVars, sinceActivity, sinceCheck, sinceByte, enablePin,
                      ctrlPin, pos, flags, homed, cmd,
                      serialVars>>

\* phase 3, lines 975-988: set the seek target
Phase3 ==
    LET positions == [m \in Motors |->
                        IF m \in HomingAxes /\ flags[m] THEN pos[m] - maxSteps[m + 1] ELSE pos[m]]
    IN /\ pc = "phase3"
       /\ clockEdge' = FALSE
       /\ IF ~emergencyStop
          THEN /\ planner' = PlannerSetTarget(planner, pos, positions)
               /\ homed' = AllFalse
               /\ pc' = "seek"
               /\ UNCHANGED <<timerVars, pos, homingActive, commandInProgress, flags, resp,
                              homeLevel>>
          ELSE /\ HomingCleanup(pos)
               /\ UNCHANGED <<planner, timeoutDuration>>
       /\ UNCHANGED <<emergencyStop, motorsEnabled, lastError, sinceActivity, sinceCheck,
                      sinceByte, sinceBackoff, enablePin, ctrlPin, cmd,
                      serialVars>>

\* a variant of the seek loop that is left only when every selected axis
\* has triggered its endstop
SeekLoopWaitsForEndstop(lv) ==
    LET nowHomed == [m \in Motors |->
                        homed[m] \/ (m \in HomingAxes /\ flags[m] /\ readEndstop(lv, m))]
        allDone == \A m \in HomingAxes : flags[m] => nowHomed[m]
    IN /\ pc = "seek"
       /\ clockEdge' = FALSE
       /\ pos' = PlannerTickPos(planner, pos)
       /\ planner' = PlannerTick(planner)
       /\ homeLevel' = lv
       /\ homed' = nowHomed
       /\ resp' = IF nowHomed # homed THEN Println(resp, "INFO") ELSE resp
       /\ pc' = IF allDone THEN "phase4" ELSE "seek"
       /\ UNCHANGED <<emergencyStop, commandInProgress, homingActive, motorsEnabled,
                      lastError, timerVars, sinceActivity, sinceCheck, sinceByte,
                      sinceBackoff, enablePin, ctrlPin, flags, cmd,
                      serialVars>>

\* one pass of the seek loop, lines 991-1015
SeekLoop(lv) ==
    LET nowHomed == [m \in Motors |->
                        homed[m] \/ (m \in HomingAxes /\ flags[m] /\ readEndstop(lv, m))]
        allDone == \A m \in HomingAxes : flags[m] => nowHomed[m]
    IN /\ pc = "seek"
       /\ clockEdge' = FALSE
       /\ IF planner.readyF
          THEN /\ planner' = PlannerReadyClear(planner)
               /\ UNCHANGED <<pos, homed, resp, homeLevel>>
               /\ pc' = "phase4"
          ELSE /\ pos' = PlannerTickPos(planner, pos)
               /\ planner' = PlannerTick(planner)
               /\ IF emergencyStop \/ isTimeoutExpired
                  THEN /\ UNCHANGED <<homed, resp, homeLevel>>
                       /\ pc' = "phase4"
                  ELSE /\ homeLevel' = lv
                       /\ homed' = nowHomed
                       /\ resp' = IF nowHomed # homed THEN Println(resp, "INFO") ELSE resp
                       /\ pc' = IF allDone THEN "phase4" ELSE "seek"
       /\ UNCHANGED <<emergencyStop, commandInProgress, homingActive, motorsEnabled,
                      lastError, timerVars, sinceActivity, sinceCheck, sinceByte,
                      sinceBackoff, enablePin, ctrlPin, flags, cmd,
                      serialVars>>

\* a variant of phase 4 that goes back to the seek while a selected axis is
\* not homed
Phase4SeeksAgain ==
    LET backs == {m \in HomingAxes : flags[m] /\ homed[m] /\ homeBackoff[m + 1] > 0}
        positions == [m \in Motors |-> IF m \in backs THEN pos[m] + homeBackoff[m + 1] ELSE pos[m]]
        braked == PlannerBrake(planner)
    IN /\ pc = "phase4"
       /\ clockEdge' = FALSE
       /\ IF emergencyStop
          THEN /\ HomingCleanup(pos)
               /\ planner' = braked
               /\ UNCHANGED timeoutDuration
          ELSE /\ IF \E m \in HomingAxes : flags[m] /\ ~homed[m]
                  THEN /\ planner' = braked
                       /\ resp' = resp
                       /\ pc' = "phase3"
                  ELSE IF backs # {}
                  THEN /\ planner' = PlannerSetTarget(braked, pos, positions)
                       /\ resp' = Println(resp, "INFO")
                       /\ pc' = "final"
                  ELSE /\ planner' = braked
                       /\ resp' = resp
                       /\ pc' = "zero"
               /\ UNCHANGED <<timerVars, pos, homingActive, commandInProgress, flags, homed,
                              homeLevel>>
       /\ sinceBackoff' = 0
       /\ UNCHANGED <<emergencyStop, motorsEnabled, lastError, sinceActivity, sinceCheck,
                      sinceByte, enablePin, ctrlPin, cmd, serialVars>>

\* lines 1017-1033: brake, then phase 4 sets the final backoff target
Phase4 ==
    LET backs == {m \in HomingAxes : flags[m] /\ homed[m] /\ homeBackoff[m + 1] > 0}
        positions == [m \in Motors |-> IF m \in backs THEN pos[m] + homeBackoff[m + 1] ELSE pos[m]]
        braked == PlannerBrake(planner)
    IN /\ pc = "phase4"
       /\ clockEdge' = FALSE
       /\ IF emergencyStop
          THEN /\ HomingCleanup(pos)
               /\ planner' = braked
               /\ UNCHANGED timeoutDuration
          ELSE /\ IF backs # {}
                  THEN /\ planner' = PlannerSetTarget(braked, pos, positions)
                       /\ resp' = Println(resp, "INFO")
                       /\ pc' = "final"
                  ELSE /\ planner' = braked
                       /\ resp' = resp
                       /\ pc' = "zero"
               /\ UNCHANGED <<timerVars, pos, homingActive, commandInProgress, flags, homed,
                              homeLevel>>
       /\ sinceBackoff' = 0
       /\ UNCHANGED <<emergencyStop, motorsEnabled, lastError, sinceActivity, sinceCheck,
                      sinceByte, enablePin, ctrlPin, cmd,
                      serialVars>>

\* positions after the zeroing loop, lines 1036-1042
ZeroHomed(ps, f, h) ==
    [m \in Motors |-> IF m \in HomingAxes /\ f[m] /\ h[m] THEN 0 ELSE ps[m]]

\* lines 1035-1056: zero the homed axes, then clean up
Zero ==
    /\ pc = "zero"
    /\ clockEdge' = FALSE
    /\ HomingCleanup(ZeroHomed(pos, flags, homed))
    /\ UNCHANGED <<emergencyStop, motorsEnabled, lastError, timeoutDuration, sinceActivity,
                   sinceCheck, sinceByte, sinceBackoff, enablePin, ctrlPin, planner, cmd,
                   serialVars>>

\* ------------------------------------------------------------------------
\* loop(), after the dispatch: lines 1196-1212
\* ------------------------------------------------------------------------
LoopRest ==
    LET ticked == IF ~emergencyStop THEN PlannerTick(planner) ELSE planner
    IN /\ pos' = IF ~emergencyStop THEN PlannerTickPos(planner, pos) ELSE pos
       /\ IF sinceCheck >= EMERGENCY_CHECK_INTERVAL
          THEN /\ checkEmergency(ticked)
               /\ sinceCheck' = 0
          ELSE /\ planner' = ticked
               /\ UNCHANGED <<emergencyStop, commandInProgress, homingActive, enablePin,
                              lastError, sinceCheck>>
       /\ clockEdge' = FALSE
       /\ resp' = IF sinceCheck >= EMERGENCY_CHECK_INTERVAL
                  THEN checkEmergencyLines(<<>>) ELSE <<>>
       /\ cmd' = NoCmd
       /\ pc' = "loop"
       /\ UNCHANGED <<motorsEnabled, timerVars, sinceActivity, sinceByte, homingLocals,
                      ctrlPin, homeLevel,
                      serialVars>>

\* the rest of the iteration that dispatched a command
LoopTail ==
    /\ pc = "tail"
    /\ LoopRest

\* an iteration in which no command line is ready
LoopIdle ==
    /\ pc = "loop"
    /\ LoopRest

Next ==
    \/ Setup
    \/ TimePasses
    \/ CmdReset
    \/ \E n \in PrintOnlyCommands : CmdPrintOnly(n)
    \/ \E c \in PinRequests : CmdPin(c)
    \/ CmdEmergency
    \/ CmdEnable
    \/ CmdDisable
    \/ CmdCheckOverflow
    \/ \E req \in MoveRequests : CmdMove(req)
    \/ MoveLoop
    \/ \E due \in BOOLEAN : MoveCheck(due)
    \/ \E args \in HomeRequests : CmdHome(args)
    \/ BackoffLoop("pre", "phase2")
    \/ BackoffLoop("escape", "phase3")
    \/ BackoffLoop("final", "zero")
    \/ \E lv \in HomeLevels(flags) : Phase2(lv)
    \/ Phase3
    \/ \E lv \in HomeLevels(flags) : SeekLoop(lv)
    \/ Phase4
    \/ Zero
    \/ LoopTail
    \/ LoopIdle

Spec == Init /\ [][Next]_vars

\* ------------------------------------------------------------------------
\* homeMotors() is a blocking call: once it has started, the processor
\* executes its next step
\* ------------------------------------------------------------------------
HomingStep ==
    \/ BackoffLoop("pre", "phase2")
    \/ BackoffLoop("escape", "phase3")
    \/ BackoffLoop("final", "zero")
    \/ \E lv \in HomeLevels(flags) : Phase2(lv)
    \/ Phase3
    \/ \E lv \in HomeLevels(flags) : SeekLoop(lv)
    \/ Phase4
    \/ Zero

SpecHoming == Init /\ [][Next]_vars /\ WF_vars(HomingStep)

\* ------------------------------------------------------------------------
\* The move commands alone, with targets on and next to the envelope
\* ------------------------------------------------------------------------
\* "move" with "*" for the axes before m and the number v for axis m
AxisRequest(m, v) == [i \in 1 .. (m + 1) |-> IF i = m + 1 THEN Num(v) ELSE Star]

BoundaryAxes == {0, 1, 2, 4}

BoundaryMoveRequests ==
    {<<>>, <<Star, Star, Star, Star, Star>>, AxisRequest(NUM_MOTORS, 0)}
    \cup UNION {{AxisRequest(m, v) :
                    v \in {minPosition[m + 1] - 1, minPosition[m + 1],
                           maxPosition[m + 1], maxPosition[m + 1] + 1}} :
                 m \in BoundaryAxes}

\* the host writes "emergency" while a command is being executed: the line
\* waits in the receive buffer until loop() reads it (line 1176)
HostSendsEmergency ==
    /\ commandInProgress
    /\ serialRx = <<>>
    /\ serialRx' = <<"emergency">>
    /\ UNCHANGED <<emergencyStop, commandInProgress, homingActive, motorsEnabled, lastError,
                   timerVars, sinceActivity, sinceCheck, sinceBackoff, sinceByte, clockEdge,
                   enablePin, ctrlPin, homeLevel, pos, planner, pc, flags, homed, resp, cmd,
                   inputBufferPos, lineBytes>>

\* (no time-out: millis() does not advance by a whole quantum)
NextMove ==
    \/ Setup
    \/ HostSendsEmergency
    \/ CmdReset
    \/ CmdEmergency
    \/ \E req \in BoundaryMoveRequests : CmdMove(req)
    \/ MoveLoop
    \/ \E due \in BOOLEAN : MoveCheck(due)
    \/ LoopTail
    \/ LoopIdle

SpecMove == Init /\ [][NextMove]_vars

\* ------------------------------------------------------------------------
\* The serial input byte by byte: one byte is read in an iteration of loop()
\* ------------------------------------------------------------------------
\* a variant of the byte read whose room test admits one byte more
ReadByteOneMore ==
    LET room == inputBufferPos < MAX_COMMAND_LENGTH
    IN /\ pc = "loop"
       /\ serialRx = <<>>
       /\ lineBytes < MaxLineBytes
       /\ lineBytes' = lineBytes + 1
       /\ inputBufferPos' = IF room THEN inputBufferPos + 1 ELSE inputBufferPos
       /\ sinceActivity' = IF room THEN 0 ELSE sinceActivity
       /\ sinceByte' = 0
       /\ clockEdge' = FALSE
       /\ resp' = <<>>
       /\ cmd' = NoCmd
       /\ pc' = "tail"
       /\ UNCHANGED <<emergencyStop, commandInProgress, homingActive, motorsEnabled,
                      lastError, timerVars, sinceCheck, homingLocals, enablePin, ctrlPin,
                      homeLevel, pos, planner, serialRx>>

\* lines 1180-1187: the index of the terminating NUL when a terminator byte
\* arrives with the cursor at p: the terminator itself is stored first if
\* there is room
NulIndex(p) == IF p < MAX_COMMAND_LENGTH - 1 THEN p + 1 ELSE p

\* lines 1176-1183: a byte that is no terminator arrives; it is stored, and
\* the activity time refreshed, only while the buffer has room
ReadByte ==
    LET room == inputBufferPos < MAX_COMMAND_LENGTH - 1
    IN /\ pc = "loop"
       /\ serialRx = <<>>
       /\ lineBytes < MaxLineBytes
       /\ lineBytes' = lineBytes + 1
       /\ inputBufferPos' = IF room THEN inputBufferPos + 1 ELSE inputBufferPos
       /\ sinceActivity' = IF room THEN 0 ELSE sinceActivity
       /\ sinceByte' = 0
       /\ clockEdge' = FALSE
       /\ resp' = <<>>
       /\ cmd' = NoCmd
       /\ pc' = "tail"
       /\ UNCHANGED <<emergencyStop, commandInProgress, homingActive, motorsEnabled,
                      lastError, timerVars, sinceCheck, homingLocals, enablePin, ctrlPin,
                      homeLevel, pos, planner, serialRx>>

\* lines 1176-1196: a terminator byte arrives after a text that is no
\* command; the buffer is closed and handed to processCommand, which strips
\* the terminator and prints "Unknown command" (1369-1372).  The record of
\* the command keeps the bytes sent and the length of the text dispatched;
\* rest is what the host has sent after this byte.
ReadTerminator(rest) ==
    LET room == inputBufferPos < MAX_COMMAND_LENGTH - 1
    IN /\ pc = "loop"
       /\ ~commandInProgress
       /\ cmd' = [name |-> "unknown", sent |-> lineBytes, length |-> inputBufferPos]
       /\ lineBytes' = 0
       /\ inputBufferPos' = 0
       /\ serialRx' = rest
       /\ sinceActivity' = IF room THEN 0 ELSE sinceActivity
       /\ sinceByte' = 0
       /\ clockEdge' = FALSE
       /\ resp' = <<"INFO">>
       /\ pc' = "tail"
       /\ UNCHANGED <<emergencyStop, commandInProgress, homingActive, motorsEnabled,
                      lastError, timerVars, sinceCheck, homingLocals, enablePin, ctrlPin,
                      homeLevel, pos, planner>>

\* the ways the host ends a line
Terminators == {"CR", "LF", "CRLF"}

\* the first terminator byte of a line; of a CR LF pair the LF is still to be read
ReadLine(term) ==
    /\ serialRx = <<>>
    /\ ReadTerminator(IF term = "CRLF" THEN <<"LF">> ELSE <<>>)

\* the LF of a CR LF pair is read by the next iteration
ReadLineFeed ==
    /\ serialRx = <<"LF">>
    /\ ReadTerminator(<<>>)

NextLine ==
    \/ Setup
    \/ ReadByte
    \/ \E term \in Terminators : ReadLine(term)
    \/ ReadLineFeed
    \/ CmdEmergency
    \/ CmdReset
    \/ LoopTail
    \/ LoopIdle

SpecLine == Init /\ [][NextLine]_vars

\* ------------------------------------------------------------------------
\* The clamp homing of the modular firmware: handleClampZero() of
\* src/arduino/src/commands.cpp and clampZeroMotors() of
\* src/arduino/src/stepper_control.cpp.  e0Stepper and e1Stepper are two
\* steppers of their own: pos[STEPPER_E0] and pos[STEPPER_E1] are their
\* current positions, planner.target holds their targets, commandInProgress
\* stands for clampInProgress.
\* ------------------------------------------------------------------------
ClampSteppers == {STEPPER_E0, STEPPER_E1}

\* setTarget() of both steppers
ClampSetTarget(t) ==
    [status |-> 1, readyF |-> FALSE, start |-> ZeroPos, S |-> 0, step |-> 0,
     target |-> [m \in Motors |-> IF m \in ClampSteppers THEN t[m] ELSE 0]]

\* ready() of both steppers
ClampReady(p, ps) == \A m \in ClampSteppers : ps[m] = p.target[m]

\* tick() of both steppers: stepper m makes up to n[m] steps towards its target
ClampTickPos(p, ps, n) ==
    [m \in Motors |->
        IF m \in ClampSteppers
        THEN ps[m] + Sgn(p.target[m] - ps[m]) * Min2(n[m], Abs(p.target[m] - ps[m]))
        ELSE ps[m]]

\* the two steppers are not synchronised: one may be a step behind the other
ClampStepCounts == [ClampSteppers -> {ClampBurst - 1, ClampBurst}]

\* the levels of the inputs when the clamp sensor is read
ClampLevels == {lv \in [HomePins -> BOOLEAN] : \A h \in HomePins : h # CLAMP_SENSOR_PIN => lv[h]}

\* readEndstopWithType(CLAMP_SENSOR_PIN, NPN)
ClampSensor(lv) == ~lv[CLAMP_SENSOR_PIN]

\* the variables no step of the clamp homing writes
clampFrame == <<emergencyStop, homingActive, motorsEnabled, lastError, sinceActivity,
                sinceCheck, sinceBackoff, sinceByte, ctrlPin, flags, homed, serialVars>>

\* millis() is stored as the start of a wait of limit milliseconds
ClampStartTimer(limit) ==
    /\ timeoutActive' = TRUE
    /\ timeoutDuration' = limit
    /\ sinceStart' = 0

\* the seek is started: both targets CLAMP_SEEK_STEPS below the positions ps
ClampStartSeek(ps) ==
    /\ planner' = ClampSetTarget([m \in Motors |-> ps[m] - CLAMP_SEEK_STEPS])
    /\ ClampStartTimer(HOMING_TIMEOUT)
    /\ pc' = "clampSeek"

\* clampZeroMotors() returns false; handleClampZero() prints the error and
\* resets both steppers (commands.cpp 608-615).  With E0_POWER_ALWAYS_ON and
\* E1_POWER_ALWAYS_ON true, disableStepper() leaves the enable lines.
ClampFailed ==
    /\ planner' = PlannerIdle(FALSE)
    /\ pos' = [m \in Motors |-> IF m \in ClampSteppers THEN 0 ELSE pos[m]]
    /\ commandInProgress' = FALSE
    /\ timeoutActive' = FALSE
    /\ UNCHANGED <<timeoutDuration, sinceStart>>
    /\ resp' = Println(Println(resp, "INFO"), "ERROR")
    /\ pc' = "clampDone"

\* "clamp_zero": handleClampZero(), clampZeroMotors() up to its first loop
CmdClampZero(lv) ==
    /\ pc = "loop"
    /\ ~commandInProgress
    /\ cmd' = [name |-> "clamp_zero"]
    /\ resp' = <<"RECEIVED", "INFO">>
    /\ commandInProgress' = TRUE
    /\ enablePin' = [m \in Motors |-> IF m \in ClampSteppers THEN "LOW" ELSE enablePin[m]]
    /\ homeLevel' = lv
    /\ clockEdge' = FALSE
    /\ pos' = pos
    /\ IF ClampSensor(lv)
       THEN /\ planner' = ClampSetTarget([m \in Motors |-> pos[m] + CLAMP_ESCAPE_STEPS])
            /\ ClampStartTimer(CLAMP_ESCAPE_TIMEOUT)
            /\ pc' = "clampEscape"
       ELSE ClampStartSeek(pos)
    /\ UNCHANGED clampFrame

\* one pass of the escape loop, lines 619-623, or its exit and the start of the seek
ClampEscapeLoop(n) ==
    /\ pc = "clampEscape"
    /\ clockEdge' = FALSE
    /\ IF ~ClampReady(planner, pos) /\ sinceStart < CLAMP_ESCAPE_TIMEOUT
       THEN /\ pos' = ClampTickPos(planner, pos, n)
            /\ UNCHANGED <<planner, timerVars, pc>>
       ELSE /\ pos' = pos
            /\ ClampStartSeek(pos)
    /\ UNCHANGED <<commandInProgress, enablePin, homeLevel, resp, cmd>>
    /\ UNCHANGED clampFrame

\* one pass of the seek loop, lines 642-662, or the code after it up to the
\* loop of the backoff: both positions are set to 0 where the sensor triggered
\* and the targets to CLAMP_BACKOFF_POSITION
ClampSeekLoop(lv, n) ==
    /\ pc = "clampSeek"
    /\ clockEdge' = FALSE
    /\ homeLevel' = lv
    /\ IF ClampSensor(lv)
       THEN /\ pos' = [m \in Motors |-> IF m \in ClampSteppers THEN 0 ELSE pos[m]]
            /\ planner' = ClampSetTarget([m \in Motors |-> CLAMP_BACKOFF_POSITION])
            /\ ClampStartTimer(CLAMP_BACKOFF_TIMEOUT)
            /\ resp' = Println(resp, "INFO")
            /\ pc' = "clampBackoff"
            /\ UNCHANGED commandInProgress
       ELSE IF sinceStart >= HOMING_TIMEOUT
       THEN ClampFailed
       ELSE /\ pos' = ClampTickPos(planner, pos, n)
            /\ UNCHANGED <<planner, timerVars, pc, resp, commandInProgress>>
    /\ UNCHANGED <<enablePin, cmd>>
    /\ UNCHANGED clampFrame

\* one pass of the backoff loop, lines 679-696, or the code after it: the
\* positions are corrected to CLAMP_BACKOFF_POSITION and the function returns
\* true; handleClampZero() prints the completion
ClampBackoffLoop(n) ==
    /\ pc = "clampBackoff"
    /\ clockEdge' = FALSE
    /\ IF ClampReady(planner, pos)
       THEN /\ pos' = [m \in Motors |->
                        IF m \in ClampSteppers THEN CLAMP_BACKOFF_POSITION ELSE pos[m]]
            /\ planner' = PlannerIdle(FALSE)
            /\ commandInProgress' = FALSE
            /\ timeoutActive' = FALSE
            /\ UNCHANGED <<timeoutDuration, sinceStart>>
            /\ resp' = Println(Println(resp, "INFO"), "COMPLETE")
            /\ pc' = "clampDone"
       ELSE IF sinceStart >= CLAMP_BACKOFF_TIMEOUT
       THEN ClampFailed
       ELSE /\ pos' = ClampTickPos(planner, pos, n)
            /\ UNCHANGED <<planner, timerVars, pc, resp, commandInProgress>>
    /\ UNCHANGED <<enablePin, homeLevel, cmd>>
    /\ UNCHANGED clampFrame

\* the handler has returned: the main loop waits for the next command
ClampReturn ==
    /\ pc = "clampDone"
    /\ pc' = "loop"
    /\ resp' = <<>>
    /\ cmd' = NoCmd
    /\ clockEdge' = FALSE
    /\ UNCHANGED <<commandInProgress, timerVars, enablePin, homeLevel, pos, planner>>
    /\ UNCHANGED clampFrame

\* the state of the modular firmware after its setup: both steppers at 0
InitClamp ==
    /\ emergencyStop = FALSE
    /\ commandInProgress = FALSE
    /\ homingActive = FALSE
    /\ motorsEnabled = TRUE
    /\ lastError = "ERROR_NONE"
    /\ timeoutActive = FALSE
    /\ timeoutDuration = 0
    /\ sinceStart = 0
    /\ sinceActivity = 0
    /\ sinceCheck = 0
    /\ sinceBackoff = 0
    /\ sinceByte = 0
    /\ clockEdge = FALSE
    /\ enablePin = AllLow
    /\ ctrlPin = [i \in CtrlPins |-> "LOW"]
    /\ homeLevel = [h \in HomePins |-> TRUE]
    /\ pos = ZeroPos
    /\ planner = PlannerIdle(FALSE)
    /\ pc = "loop"
    /\ flags = AllFalse
    /\ homed = AllFalse
    /\ resp = <<>>
    /\ cmd = NoCmd
    /\ serialRx = <<>>
    /\ inputBufferPos = 0
    /\ lineBytes = 0

NextClamp ==
    \/ TimePasses
    \/ \E lv \in ClampLevels : CmdClampZero(lv)
    \/ \E n \in ClampStepCounts : ClampEscapeLoop(n)
    \/ \E lv \in ClampLevels, n \in ClampStepCounts : ClampSeekLoop(lv, n)
    \/ \E n \in ClampStepCounts : ClampBackoffLoop(n)
    \/ ClampReturn

SpecClamp == InitClamp /\ [][NextClamp]_vars

\* clampZeroMotors() is a blocking call and millis() advances
ClampStep ==
    \/ \E n \in ClampStepCounts : ClampEscapeLoop(n)
    \/ \E lv \in ClampLevels, n \in ClampStepCounts : ClampSeekLoop(lv, n)
    \/ \E n \in ClampStepCounts : ClampBackoffLoop(n)

SpecClampLive == SpecClamp /\ WF_vars(ClampStep) /\ WF_vars(TimePasses)

\* ------------------------------------------------------------------------
\* clampHome() of the second firmware (src/arduino copy/src/main.cpp): the
\* coordinated homing of E0 and E1 on the shared endstop input.  The locals
\* e0HomingComplete and e1HomingComplete are kept in homed[MOTOR_E0] and
\* homed[MOTOR_E1].  The planner is the one of the main firmware, ticked for
\* at most ClampBurst steps of the lead axis between two passes of a loop.
\* ------------------------------------------------------------------------
ClampHomeMotors == {MOTOR_E0, MOTOR_E1}

\* readHomeSwitch(), lines 288-298: switchState is the level digitalRead returns
readHomeSwitch(switchState, m) == IF isNPN[m + 1] THEN ~switchState ELSE switchState

ClampHomeStepAfterTick(p) == Min2(p.step + ClampBurst, p.S)

ClampHomeTickPos(p, ps) ==
    IF p.status = 1
    THEN LET n == ClampHomeStepAfterTick(p)
         IN [m \in Motors |->
                LET d == p.target[m] - p.start[m]
                IN p.start[m] + Sgn(d) * MulDiv(Abs(d), n, p.S)]
    ELSE ps

ClampHomeTick(p) ==
    IF p.status = 1
    THEN IF ClampHomeStepAfterTick(p) = p.S
         THEN PlannerIdle(TRUE)
         ELSE [p EXCEPT !.step = ClampHomeStepAfterTick(p)]
    ELSE p

\* the positions of E0 and E1 moved by d0 and d1 steps
ClampHomeTargets(ps, d0, d1) ==
    [m \in Motors |-> IF m = MOTOR_E0 THEN ps[m] + d0
                      ELSE IF m = MOTOR_E1 THEN ps[m] + d1 ELSE ps[m]]

clampHomeFrame == <<emergencyStop, commandInProgress, lastError, timerVars, sinceActivity,
                    sinceCheck, sinceBackoff, sinceByte, clockEdge, ctrlPin, flags,
                    serialVars>>

\* stage 3 up to its loop, lines 597-627: the far targets, both flags false
ClampHomeStartSeek(p, ps) ==
    /\ planner' = PlannerSetTarget(p, ps, ClampHomeTargets(ps, -maxSteps[MOTOR_E0 + 1],
                                                          -maxSteps[MOTOR_E1 + 1]))
    /\ homed' = AllFalse
    /\ pc' = "clamphSeek"

\* "clamph": parseCommand, handleClampHome, clampHome up to its first loop;
\* stage 1 is skipped because both preHomingBackoff are 0; s0 and s1 are the
\* levels of the two reads of stage 2
CmdClampHome(s0, s1) ==
    /\ pc = "loop"
    /\ \A m \in ClampHomeMotors : pos[m] >= -ClampHomeDepth /\ pos[m] <= ClampHomeDepth
    /\ cmd' = [name |-> "clamph"]
    /\ resp' = <<"RECEIVED", "INFO">>
    /\ homingActive' = TRUE
    /\ enablePin' = AllLow
    /\ motorsEnabled' = TRUE
    /\ homeLevel' = [homeLevel EXCEPT ![homePin[MOTOR_E1 + 1]] = s1]
    /\ pos' = pos
    /\ IF readHomeSwitch(s0, MOTOR_E0) \/ readHomeSwitch(s1, MOTOR_E1)
       THEN /\ planner' = PlannerSetTarget(planner, pos,
                                           ClampHomeTargets(pos, ESCAPE_STEPS, ESCAPE_STEPS))
            /\ homed' = AllFalse
            /\ pc' = "clamphEscape"
       ELSE ClampHomeStartSeek(planner, pos)
    /\ UNCHANGED clampHomeFrame

\* one pass of the escape loop, lines 591-593, or its exit, the brake and
\* the start of the seek
ClampHomeEscapeLoop(s0, s1) ==
    /\ pc = "clamphEscape"
    /\ IF ~planner.readyF /\ (readHomeSwitch(s0, MOTOR_E0) \/ readHomeSwitch(s1, MOTOR_E1))
       THEN /\ pos' = ClampHomeTickPos(planner, pos)
            /\ planner' = ClampHomeTick(planner)
            /\ UNCHANGED <<homed, pc>>
       ELSE /\ pos' = pos
            /\ ClampHomeStartSeek(PlannerBrake(PlannerReadyClear(planner)), pos)
    /\ homeLevel' = [homeLevel EXCEPT ![homePin[MOTOR_E1 + 1]] = s1]
    /\ UNCHANGED <<homingActive, enablePin, motorsEnabled, resp, cmd>>
    /\ UNCHANGED clampHomeFrame

\* one pass of the seek loop, lines 630-661: tick, the read for E0, the read
\* for E1, the two exits; on an exit the brake and either the target of the
\* final backoff or the partial zeroing and the failure report, lines 663-734
ClampHomeSeekLoop(s0, s1) ==
    LET ticked == ClampHomeTick(planner)
        moved == ClampHomeTickPos(planner, pos)
        e0HomingComplete == homed[MOTOR_E0] \/ readHomeSwitch(s0, MOTOR_E0)
        e1HomingComplete == homed[MOTOR_E1] \/ readHomeSwitch(s1, MOTOR_E1)
        complete == [homed EXCEPT ![MOTOR_E0] = e0HomingComplete,
                                  ![MOTOR_E1] = e1HomingComplete]
    IN /\ pc = "clamphSeek"
       /\ homed' = complete
       /\ homeLevel' = [homeLevel EXCEPT ![homePin[MOTOR_E1 + 1]] = s1]
       /\ IF e0HomingComplete /\ e1HomingComplete
          THEN /\ pos' = moved
               /\ planner' = PlannerSetTarget(PlannerBrake(ticked), moved,
                                 ClampHomeTargets(moved, homeBackoff[MOTOR_E0 + 1],
                                                  homeBackoff[MOTOR_E1 + 1]))
               /\ resp' = Println(resp, "INFO")
               /\ pc' = "clamphFinal"
               /\ UNCHANGED homingActive
          ELSE IF ticked.readyF
               THEN /\ pos' = [m \in Motors |->
                                 IF m \in ClampHomeMotors /\ complete[m] THEN 0 ELSE moved[m]]
                    /\ planner' = PlannerBrake(PlannerReadyClear(ticked))
                    /\ homingActive' = FALSE
                    /\ resp' = Append(Println(resp, "INFO"), "ERROR")
                    /\ pc' = "clamphDone"
               ELSE /\ pos' = moved
                    /\ planner' = ticked
                    /\ resp' = Println(resp, "INFO")
                    /\ UNCHANGED <<homingActive, pc>>
       /\ UNCHANGED <<enablePin, motorsEnabled, cmd>>
       /\ UNCHANGED clampHomeFrame

\* one pass of the loop of the final backoff, lines 687-689, or its exit:
\* brake, both positions set to 0, COMPLETE
ClampHomeFinalLoop ==
    /\ pc = "clamphFinal"
    /\ IF ~planner.readyF
       THEN /\ pos' = ClampHomeTickPos(planner, pos)
            /\ planner' = ClampHomeTick(planner)
            /\ UNCHANGED <<homingActive, resp, pc>>
       ELSE /\ pos' = [m \in Motors |-> IF m \in ClampHomeMotors THEN 0 ELSE pos[m]]
            /\ planner' = PlannerBrake(PlannerReadyClear(planner))
            /\ homingActive' = FALSE
            /\ resp' = Append(Println(resp, "INFO"), "COMPLETE")
            /\ pc' = "clamphDone"
    /\ UNCHANGED <<enablePin, motorsEnabled, homeLevel, homed, cmd>>
    /\ UNCHANGED clampHomeFrame

\* clampHome has returned: the end of parseCommand, lines 1135-1143
ClampHomeReturn ==
    /\ pc = "clamphDone"
    /\ pc' = "loop"
    /\ planner' = PlannerReadyClear(planner)
    /\ homed' = AllFalse
    /\ resp' = <<>>
    /\ cmd' = NoCmd
    /\ UNCHANGED <<homingActive, enablePin, motorsEnabled, homeLevel, pos>>
    /\ UNCHANGED clampHomeFrame

\* the second firmware after its setup, lines 1167-1249: only the drivers of
\* the always-on motors enabled
InitClampHome ==
    /\ emergencyStop = FALSE
    /\ commandInProgress = FALSE
    /\ homingActive = FALSE
    /\ motorsEnabled = TRUE
    /\ lastError = "ERROR_NONE"
    /\ timeoutActive = FALSE
    /\ timeoutDuration = 0
    /\ sinceStart = 0
    /\ sinceActivity = 0
    /\ sinceCheck = 0
    /\ sinceBackoff = 0
    /\ sinceByte = 0
    /\ clockEdge = FALSE
    /\ enablePin = [m \in Motors |-> IF alwaysOn[m + 1] THEN "LOW" ELSE "HIGH"]
    /\ ctrlPin = [i \in CtrlPins |-> "LOW"]
    /\ homeLevel = [h \in HomePins |-> TRUE]
    /\ pos = ZeroPos
    /\ planner = PlannerIdle(FALSE)
    /\ pc = "loop"
    /\ flags = AllFalse
    /\ homed = AllFalse
    /\ resp = <<>>
    /\ cmd = NoCmd
    /\ serialRx = <<>>
    /\ inputBufferPos = 0
    /\ lineBytes = 0

NextClampHome ==
    \/ \E s0, s1 \in BOOLEAN : CmdClampHome(s0, s1)
    \/ \E s0, s1 \in BOOLEAN : ClampHomeEscapeLoop(s0, s1)
    \/ \E s0, s1 \in BOOLEAN : ClampHomeSeekLoop(s0, s1)
    \/ ClampHomeFinalLoop
    \/ ClampHomeReturn

SpecClampHome == InitClampHome /\ [][NextClampHome]_vars

\* clampHome() is a blocking call
ClampHomeStep ==
    \/ \E s0, s1 \in BOOLEAN : ClampHomeEscapeLoop(s0, s1)
    \/ \E s0, s1 \in BOOLEAN : ClampHomeSeekLoop(s0, s1)
    \/ ClampHomeFinalLoop

SpecClampHomeLive == SpecClampHome /\ WF_vars(ClampHomeStep)

\* ------------------------------------------------------------------------
\* Properties
\* ------------------------------------------------------------------------
\* the commands other than "reset"
NonResetCommands ==
    {"status", "help", "version", "read_pins", "unknown", "pin", "emergency", "enable",
     "disable", "check_overflow", "move", "home"}

\* C1: once the emergency latch is set it stays set through every later
\* command and every iteration of loop(); the only step that clears it is the
\* processing of a "reset" command.
C1_LatchClearedOnlyByReset ==
    [][(emergencyStop /\ ~emergencyStop') => (pc = "loop" /\ cmd'.name = "reset")]_vars

\* C1 witness: the latch is still set after a non-reset command ("enable")
\* has been processed on top of it.
C1_LatchedAfterEnable ==
    /\ emergencyStop
    /\ pc = "tail"
    /\ cmd.name = "enable"
    /\ resp = <<"ERROR">>

\* C2: while the latch is set, the dispatch of any command other than "reset"
\* answers with one ERROR line and changes nothing (the command is not
\* executed).
C2_LatchedCommandsRejected ==
    [][(pc = "loop" /\ emergencyStop /\ cmd'.name \in NonResetCommands)
          => /\ resp' = <<"ERROR">>
             /\ UNCHANGED <<ctrlPin, enablePin, motorsEnabled, lastError, pos, planner>>]_vars

\* the terminal lines among the response lines r
TerminalLines(r) == {i \in DOMAIN r : r[i] \in {"COMPLETE", "ERROR"}}

\* C3: when processCommand has returned, the command has produced exactly one
\* terminal line (COMPLETE or ERROR...).
C3_OneTerminalLine ==
    pc = "tail" => Cardinality(TerminalLines(resp)) = 1

\* C4: the first line a command produces is RECEIVED.
C4_ReceivedFirst ==
    pc = "tail" => (Len(resp) > 0 /\ resp[1] = "RECEIVED")

\* the places inside coordinatedMove and inside homeMotors
MovePlaces == {"move", "moveCheck"}
HomingPlaces == {"pre", "phase2", "escape", "phase3", "seek", "phase4", "final", "zero"}

\* the four modes, from the flags of SystemState
Idle == ~emergencyStop /\ ~commandInProgress /\ ~homingActive
MoveRunning == commandInProgress /\ ~homingActive
HomingRunning == homingActive
EmergencyLatched == emergencyStop

\* C5: exactly one of Idle, MoveRunning, HomingRunning, EmergencyLatched
\* holds; homeMotors runs only in HomingRunning and coordinatedMove only in
\* MoveRunning (or, for the pass that notices the latch, EmergencyLatched);
\* between commands no operation flag is set; the planner is stopped
\* whenever the latch is set.
C5_ExactlyOneMode ==
    /\ Cardinality({i \in 1 .. 4 :
                      <<Idle, MoveRunning, HomingRunning, EmergencyLatched>>[i]}) = 1
    /\ (pc \in HomingPlaces => HomingRunning /\ commandInProgress)
    /\ (pc \in MovePlaces => MoveRunning \/ EmergencyLatched)
    /\ (pc \in {"loop", "tail"} => Idle \/ EmergencyLatched)
    /\ (emergencyStop => planner.status = 0)

\* C5 witness: the latch has been set by the check inside the move loop while
\* coordinatedMove has not returned yet.
C5_LatchedInsideMove ==
    /\ pc = "move"
    /\ emergencyStop
    /\ ~commandInProgress
    /\ planner.status = 0

\* C6: when an operation ends with its timeout expired (the move loop or the
\* homing noticed the expiry, the planner not having reached the target of a
\* move), the planner is stopped and the emergency latch is set.
C6_ExpiredTimeoutLatches ==
    [][(isTimeoutExpired /\ ~timeoutActive' /\ ~(pc = "move" /\ planner.readyF))
          => (emergencyStop' /\ planner'.status = 0)]_vars

\* an iteration of loop() completes and its periodic check is due
PeriodicCheckStep ==
    /\ pc \in {"loop", "tail"}
    /\ pc' = "loop"
    /\ clockEdge' = FALSE
    /\ sinceCheck >= EMERGENCY_CHECK_INTERVAL

\* C7: when no byte has arrived for more than WATCHDOG_TIMEOUT_MS, the
\* periodic check of loop() that runs next sets the latch (with the effects
\* of emergencyStop()) and prints the auto-shutdown announcement.
C7_WatchdogLatches ==
    [][(PeriodicCheckStep /\ sinceByte > WATCHDOG_TIMEOUT_MS)
          => /\ emergencyStop'
             /\ lastError' = "ERROR_EMERGENCY_STOP"
             /\ Len(resp') > 0 /\ resp'[1] = "WATCHDOG"]_vars

\* C7 witness: the watchdog has latched the emergency state of an idle system
\* that no command had latched.
C7_WatchdogFired ==
    /\ pc = "loop"
    /\ emergencyStop
    /\ sinceByte > WATCHDOG_TIMEOUT_MS
    /\ resp = <<"WATCHDOG", "INFO">>
    /\ enablePin = AllHigh

\* C8: every step that sets the emergency latch deasserts all five enable
\* lines, leaves the planner stopped and sets lastError to
\* ERROR_EMERGENCY_STOP.
C8_EmergencyEffects ==
    [][(~emergencyStop /\ emergencyStop')
          => /\ enablePin' = AllHigh
             /\ planner'.status = 0
             /\ lastError' = "ERROR_EMERGENCY_STOP"]_vars

\* C8 witness: the "emergency" command has latched a system whose five
\* enable lines are deasserted.
C8_LatchedByCommand ==
    /\ pc = "tail"
    /\ cmd.name = "emergency"
    /\ emergencyStop
    /\ enablePin = AllHigh
    /\ lastError = "ERROR_EMERGENCY_STOP"

C10_TemporaryDeassertedAfterOperation ==
    (pc = "tail" /\ cmd.name \in {"move", "home"})
        => \A m \in Motors : ~alwaysOn[m + 1] => enablePin[m] = "HIGH"

\* C11: when setup() finishes, the enable line of every always-on axis is
\* asserted, that of every temporary axis is deasserted, every position is
\* zero and the emergency latch is clear.
C11_BootState ==
    [][(pc = "setup" /\ pc' = "loop")
          => /\ \A m \in Motors : enablePin'[m] = IF alwaysOn[m + 1] THEN "LOW" ELSE "HIGH"
             /\ pos' = ZeroPos
             /\ ~emergencyStop']_vars

\* every axis that has a token has its target inside the closed envelope
InEnvelope(req) ==
    \A m \in Motors :
        m < Len(req) => /\ Atof(req[m + 1]) >= minPosition[m + 1]
                        /\ Atof(req[m + 1]) <= maxPosition[m + 1]

\* C12: a move dispatched while the latch is clear is accepted exactly when
\* every participating target lies in the closed envelope; a refused move
\* answers with one ERROR line, sets ERROR_INVALID_POSITION, does not start
\* the planner and changes no position.
C12_EnvelopeDecidesMove ==
    [][(pc = "loop" /\ cmd'.name = "move" /\ ~emergencyStop)
          => IF InEnvelope(cmd'.args)
             THEN /\ TerminalLines(resp') \subseteq {i \in DOMAIN resp' : resp'[i] = "COMPLETE"}
                  /\ lastError' = lastError
                  /\ pc' = "move" \/ pos' = pos
             ELSE /\ resp' = <<"ERROR">>
                  /\ lastError' = "ERROR_INVALID_POSITION"
                  /\ pos' = pos
                  /\ planner' = planner /\ planner'.status = 0
                  /\ ~commandInProgress'
                  /\ pc' = "tail"]_vars

\* C12 witness: X has been moved to exactly its upper bound, and a move to one
\* hundredth of a unit beyond it has been refused and has left it there.
C12_RefusedBeyondBound ==
    /\ pc = "tail"
    /\ cmd.name = "move"
    /\ cmd.args = AxisRequest(0, maxPosition[1] + 1)
    /\ resp = <<"ERROR">>
    /\ lastError = "ERROR_INVALID_POSITION"
    /\ pos[0] = toSteps(0, maxPosition[1])

\* the response lines r hold an ERROR line
HasError(r) == \E i \in DOMAIN r : r[i] = "ERROR"

\* C13: a request that is rejected (an unknown command; a pin, move or home
\* request answered with an ERROR line) leaves positions, enable lines,
\* control pins, the planner and the in-progress flags as they were.
C13_RejectedHasNoEffect ==
    [][(/\ pc = "loop"
        /\ \/ cmd'.name = "unknown"
           \/ cmd'.name \in {"pin", "move", "home"} /\ HasError(resp'))
          => UNCHANGED <<pos, enablePin, ctrlPin, planner, commandInProgress,
                         homingActive>>]_vars

\* C13 witness: an out-of-envelope move has been refused while the temporary
\* axes were deasserted and a control pin was driven: all is as it was.
C13_RefusedMoveKeepsPins ==
    /\ pc = "tail"
    /\ cmd.name = "move"
    /\ resp = <<"ERROR">>
    /\ lastError = "ERROR_INVALID_POSITION"
    /\ ~emergencyStop
    /\ enablePin[4] = "HIGH"
    /\ ctrlPin[WASTE] = "HIGH"

\* the axes given as "*" in the move request req
StarAxes(req) == {m \in Motors : m < Len(req) /\ req[m + 1].star}

\* C14: in every step of a move command an axis given as "*" keeps its
\* position, and a move whose five tokens are all "*" returns at once with
\* COMPLETE.
C14_StarAxisStays ==
    [][cmd'.name = "move"
          => /\ \A m \in StarAxes(cmd'.args) : pos'[m] = pos[m]
             /\ (pc = "loop" /\ ~emergencyStop /\ StarAxes(cmd'.args) = Motors)
                   => (pc' = "tail" /\ resp'[Len(resp')] = "COMPLETE")]_vars

\* every axis that has a token in req is at the target the token gives
AtTarget(req, ps) ==
    \A m \in Motors : m < Len(req) => toSteps(m, Atof(req[m + 1])) = ps[m]

\* C15: a move dispatched while the latch is clear, with every participating
\* axis already at its target, moves nothing, leaves the enable line of
\* every always-on axis as it is and returns COMPLETE.
C15_NoOpMove ==
    [][(pc = "loop" /\ cmd'.name = "move" /\ ~emergencyStop /\ AtTarget(cmd'.args, pos))
          => /\ pos' = pos
             /\ planner'.status = 0
             /\ pc' = "tail"
             /\ resp'[Len(resp')] = "COMPLETE"
             /\ \A m \in Motors : alwaysOn[m + 1] => enablePin'[m] = enablePin[m]]_vars

\* C16: an "emergency" line that the host sends while a move is running stops
\* the move at once: the pass of the move loop that follows its arrival
\* brakes the planner and sets the latch, instead of stepping on
C16_EmergencyBrakesMove ==
    [][(pc = "move" /\ planner.status = 1 /\ serialRx = <<"emergency">>)
          => (emergencyStop' /\ planner'.status = 0 /\ pc' = "tail")]_vars

\* C17: the position counter of an axis is written only by the step pulses
\* of that axis (a pass of the planner that is running) and by a successful
\* homing of that axis, which sets it to 0
C17_CounterWrittenByPulsesOrHoming ==
    [][\A m \in Motors :
          pos'[m] # pos[m] =>
              \/ planner.status = 1 /\ pos' = PlannerTickPos(planner, pos)
              \/ pc = "zero" /\ m \in HomingAxes /\ flags[m] /\ homed[m] /\ pos'[m] = 0]_vars

\* the axes that take part in a move request: a number is given for them
Participating(req) == {m \in Motors : m < Len(req) /\ ~req[m + 1].star}

\* C18: while a move is executed the axes that do not take part keep their
\* position, and when the move has run to completion (COMPLETE) every axis
\* that takes part stands at its requested target, converted to steps
C18_CompletedMoveExact ==
    [][cmd'.name = "move"
          => /\ \A m \in Motors \ Participating(cmd'.args) : pos'[m] = pos[m]
             /\ (pc' = "tail" /\ resp'[Len(resp')] = "COMPLETE")
                   => \A m \in Participating(cmd'.args) :
                         pos'[m] = toSteps(m, cmd'.args[m + 1].val)]_vars

\* peak step rate of axis m in the path of planner p, as the numerator of a
\* fraction over p.S: the lead axis (the longest path, p.S steps) is stepped
\* at the planner's speed limit, every other axis in proportion to its path
AxisRateTimesS(p, m) == PLANNER_MAX_SPEED * Abs(p.target[m] - p.start[m])

\* the path is long enough for the lead axis to reach the speed limit:
\* accelerating to V and braking from it take V * V / a steps
ReachesSpeedLimit(p) == p.S * PLANNER_ACCELERATION >= PLANNER_MAX_SPEED * PLANNER_MAX_SPEED

\* C19: while the planner runs a move or a homing path, no axis is stepped
\* faster than its own maxSpeed
C19_NoAxisFasterThanMaxSpeed ==
    \A m \in Motors :
        (planner.status = 1 /\ ReachesSpeedLimit(planner))
            => AxisRateTimesS(planner, m) <= maxSpeed[m + 1] * planner.S

\* C20: when the terminator of a line arrives, a line of at most
\* MAX_COMMAND_LENGTH - 1 bytes is dispatched with all its bytes, and a longer
\* line is not dispatched at all but reported as a buffer overflow
C20_LineLengthLimit ==
    [][(pc = "loop" /\ pc' = "tail" /\ lineBytes > 0 /\ lineBytes' = 0)
          => IF lineBytes <= MAX_COMMAND_LENGTH - 1
             THEN cmd'.name = "unknown" /\ cmd'.length = lineBytes
             ELSE cmd' = NoCmd /\ lastError' = "ERROR_BUFFER_OVERFLOW"]_vars

\* C21: a pin command whose index, as the host wrote it, lies outside
\* 0 .. NUM_CTRL_PINS - 1 is answered with an ERROR line and writes no
\* control pin
C21_InvalidPinRefused ==
    [][(pc = "loop" /\ cmd'.name = "pin" /\ cmd'.parsed
          /\ cmd'.index \notin 0 .. (NUM_CTRL_PINS - 1))
          => (resp' = <<"ERROR">> /\ ctrlPin' = ctrlPin)]_vars

\* C22: a move or home command with fewer or more than NUM_MOTORS argument
\* tokens is answered with an ERROR line and starts no motion
C22_ArgumentCountExact ==
    [][(pc = "loop" /\ cmd'.name \in {"move", "home"} /\ Len(cmd'.args) # NUM_MOTORS)
          => (resp' = <<"ERROR">> /\ pc' = "tail" /\ planner'.status = 0)]_vars

\* C23: the LF of a CR LF pair is not dispatched as a command of its own and
\* produces no response
C23_OneDispatchPerLine ==
    [][(pc = "loop" /\ serialRx = <<"LF">> /\ serialRx' = <<>>)
          => (cmd' = NoCmd /\ resp' = <<>>)]_vars

\* C24: "reset" processed while the latch is not set changes neither the
\* latch, nor lastError, nor a position, nor an enable line, nor the
\* in-progress flags, and prints nothing
C24_ResetWithoutLatchIsNoOp ==
    [][(pc = "loop" /\ cmd'.name = "reset" /\ ~emergencyStop)
          => /\ ~emergencyStop'
             /\ lastError' = lastError
             /\ pos' = pos
             /\ enablePin' = enablePin
             /\ commandInProgress' = commandInProgress
             /\ homingActive' = homingActive
             /\ motorsEnabled' = motorsEnabled
             /\ planner' = planner
             /\ resp' = <<>>]_vars

\* C24 witness: "reset" has been processed without a latch, after a refused
\* move had set lastError and a completed move had left Z away from 0
C24_ResetKeptError ==
    /\ pc = "tail"
    /\ cmd.name = "reset"
    /\ ~emergencyStop
    /\ lastError = "ERROR_INVALID_POSITION"
    /\ pos[2] # 0

\* the axes whose homing has succeeded when the zeroing loop is reached
HomedAxes == {m \in HomingAxes : pc = "zero" /\ flags[m] /\ homed[m]}

\* C25: the step that ends a homing leaves the counter of every axis that was
\* selected and homed at zero, and the counter of every other axis (not
\* selected, seek failed, homing aborted) as it was
C25_ZeroedIffHomed ==
    [][(homingActive /\ ~homingActive')
          => \A m \in Motors : pos'[m] = IF m \in HomedAxes THEN 0 ELSE pos[m]]_vars

\* C26: no step of a home command changes the position of an axis that the
\* request does not select
C26_UnselectedAxisKeepsPosition ==
    [][cmd'.name = "home"
          => \A m \in Motors : ~parseHomingFlags(cmd'.args)[m] => pos'[m] = pos[m]]_vars

\* C27: a homing whose seek has ended with a selected axis not homed ends
\* with an ERROR line and not with COMPLETE
C27_FailedSeekEndsWithError ==
    [][(pc = "zero" /\ pc' = "tail" /\ \E m \in HomingAxes : flags[m] /\ ~homed[m])
          => (HasError(resp') /\ resp'[Len(resp')] # "COMPLETE")]_vars

\* C28: when a clamp homing has ended successfully, E0 and E1 stand the same
\* number of steps from the position where the sensor triggered and the
\* position counter of both is 0
C28_ClampHomeZeroed ==
    (pc = "clampDone" /\ resp[Len(resp)] = "COMPLETE")
        => (pos[STEPPER_E0] = pos[STEPPER_E1] /\ pos[STEPPER_E0] = 0)

\* the places of a homing in the order of the code: the pre-backoff, the
\* escape (phase 2 decides on it), the seek (phase 3 sets its target), the
\* final backoff (phase 4 decides on it), the zeroing, the return
HomingOrder ==
    <<"loop", "pre", "phase2", "escape", "phase3", "seek", "phase4", "final", "zero", "tail">>

HomingRank(p) == CHOOSE i \in DOMAIN HomingOrder : HomingOrder[i] = p

\* C29: a homing passes its phases in the order pre-backoff, escape, seek,
\* final backoff and enters none of them twice; the step that ends it leaves
\* the system idle; once the latch is set no step of the homing moves an
\* axis; and every homing that has started ends
C29_HomingPhasesInOrder ==
    /\ [][cmd'.name = "home"
             => /\ HomingRank(pc') >= HomingRank(pc)
                /\ (pc' = "tail") => (~homingActive' /\ ~commandInProgress'
                                        /\ ~timeoutActive' /\ planner'.status = 0)
                /\ emergencyStop => pos' = pos]_vars
    /\ homingActive ~> ~homingActive

\* C29 witness: the final backoff of X runs, after the pre-backoff and a seek
\* in which the endstop of X has triggered
C29_FinalBackoffRuns ==
    /\ pc = "final"
    /\ cmd.name = "home"
    /\ flags[0] /\ homed[0]
    /\ planner.status = 1
    /\ pos[0] < 0

\* C30: in the seek an axis whose endstop has been read as triggered makes no
\* further step, whatever the other axes do: its position stays the one it
\* had at that read
C30_HomedAxisStops ==
    [][pc = "seek" => \A m \in HomingAxes : homed[m] => pos'[m] = pos[m]]_vars

\* C31: a selected axis whose endstop reads triggered before the seek gets
\* the escape target ESCAPE_STEPS above its position; the escape steps such
\* an axis towards that target and no axis in the negative direction, and it
\* ends, before the seek target is set, only with the planner stopped or
\* the backoff time spent
C31_EscapeBeforeSeek ==
    [][/\ pc = "phase2"
          => \A m \in HomingAxes :
                (flags[m] /\ readEndstop(homeLevel', m))
                    => /\ pc' = "escape"
                       /\ planner'.status = 1
                       /\ planner'.target[m] = pos[m] + ESCAPE_STEPS
       /\ pc = "escape"
          => /\ pc' \in {"escape", "phase3"}
             /\ \A m \in Motors : pos'[m] >= pos[m]
             /\ (planner.status = 1 /\ planner' # planner)
                   => \A m \in HomingAxes :
                         (flags[m] /\ readEndstop(homeLevel, m))
                             => pos[m] < pos'[m] /\ pos'[m] <= planner.target[m]
             /\ pc' = "phase3"
                   => planner.status = 0 \/ sinceBackoff > BACKOFF_TIMEOUT_MS]_vars

\* C31 witness: the escape of X is under way, its endstop having read
\* triggered
C31_EscapeRuns ==
    /\ pc = "escape"
    /\ flags[0]
    /\ readEndstop(homeLevel, 0)
    /\ planner.status = 1
    /\ planner.target[0] = pos[0] + ESCAPE_STEPS

\* C32: clamp-home never ends with exactly one of E0 and E1 marked homed, nor
\* with exactly one of the two positions written to zero
C32_ClampHomeBothOrNeither ==
    pc = "clamphDone"
        => /\ homed[MOTOR_E0] = homed[MOTOR_E1]
           /\ (pos[MOTOR_E0] = 0) = (pos[MOTOR_E1] = 0)

\* the seek loop has just been left by its time-out test: the time of the
\* homing is spent and the planner was still running at the last tick (an
\* exit by planner.ready() leaves the planner stopped with its flag read)
SeekTimedOut == isTimeoutExpired /\ (planner.status = 1 \/ planner.readyF)

\* C33: after a seek that timed out no final backoff is started, and the end
\* of that homing writes no position counter to zero
C33_TimedOutHomingAborts ==
    [][/\ (pc = "phase4" /\ SeekTimedOut) => pc' # "final"
       /\ (pc = "zero" /\ SeekTimedOut /\ \A m \in HomingAxes : ~(flags[m] /\ homed[m]))
             => \A m \in Motors : pos'[m] = 0 => pos[m] = 0]_vars

\* C34: every homing that has started returns: the main loop is reached again
\* in Idle, with homingActive, commandInProgress and the time-out cleared
C34_HomingReturnsToIdle ==
    homingActive ~> (pc = "tail" /\ Idle /\ ~timeoutActive /\ planner.status = 0)

\* C34 witness: the seek has been given up on its time-out with no endstop
\* triggered
C34_SeekGivenUp ==
    /\ pc = "phase4"
    /\ homingActive
    /\ SeekTimedOut
    /\ \A m \in HomingAxes : ~homed[m]

\* the same for clampHome() of the second firmware, under SpecClampHomeLive
ClampHomeReturns == homingActive ~> (pc = "clamphDone" /\ ~homingActive)

\* the same for clampZeroMotors() of the modular firmware, under SpecClampLive
ClampZeroReturns == commandInProgress ~> (pc = "clampDone" /\ ~commandInProgress)

\* C35: every step that receives a byte and every step that prints the
\* COMPLETE of a command leaves the time since the last activity at 0, and
\* the watchdog latches only when more than WATCHDOG_TIMEOUT_MS have passed
\* since the last byte
C35_ActivityRefreshed ==
    [][/\ (sinceByte' = 0 /\ (sinceByte # 0 \/ serialVars' # serialVars \/ cmd' # cmd))
             => sinceActivity' = 0
       /\ (resp' # resp /\ Len(resp') > 0 /\ resp'[Len(resp')] = "COMPLETE")
             => sinceActivity' = 0
       /\ (~emergencyStop /\ emergencyStop' /\ resp' # resp
              /\ \E i \in 1 .. Len(resp') : resp'[i] = "WATCHDOG")
             => sinceByte > WATCHDOG_TIMEOUT_MS]_vars

\* C36: two selected axes that a step of the seek loop marks homed together
\* have different endstop inputs, so that each was marked on a trigger of
\* its own input
C36_HomedOnOwnEndstop ==
    [][pc = "seek"
          => \A m, n \in HomingAxes :
                (m # n /\ flags[m] /\ flags[n]
                   /\ ~homed[m] /\ homed'[m] /\ ~homed[n] /\ homed'[n])
                    => homePin[m + 1] # homePin[n + 1]]_vars

\* C37: while the emergency latch is set, the enable line of every motor is
\* deasserted (HIGH)
C37_NoEnableWhileLatched ==
    emergencyStop => \A m \in Motors : enablePin[m] = "HIGH"

\* C37 witness: an enable command has been processed with the latch set
C37_EnableRefused ==
    /\ emergencyStop
    /\ pc = "tail"
    /\ cmd.name = "enable"
    /\ resp = <<"ERROR">>
    /\ enablePin = AllHigh

\* C38: the write cursor of the command buffer stays in
\* 0 .. MAX_COMMAND_LENGTH - 1, and a byte stored and the terminating NUL are
\* written at an index below MAX_COMMAND_LENGTH
C38_BufferWritesInBounds ==
    [][/\ inputBufferPos \in 0 .. (MAX_COMMAND_LENGTH - 1)
       /\ inputBufferPos' \in 0 .. (MAX_COMMAND_LENGTH - 1)
       /\ inputBufferPos' = inputBufferPos + 1 => inputBufferPos < MAX_COMMAND_LENGTH
       /\ (pc = "loop" /\ cmd'.name = "unknown")
             => NulIndex(inputBufferPos) < MAX_COMMAND_LENGTH]_vars

\* C38 witness: the terminator of a line longer than the buffer has been
\* read with the cursor at its last value
C38_FullBufferClosed ==
    /\ pc = "tail"
    /\ cmd.name = "unknown"
    /\ cmd.sent > MAX_COMMAND_LENGTH
    /\ cmd.length = MAX_COMMAND_LENGTH - 1
    /\ inputBufferPos = 0

\* C39: whenever control is in loop() outside a command handler, no
\* operation flag is set and the operation time-out is inactive
C39_LoopHasNoOperationState ==
    pc \in {"loop", "tail"} => (~commandInProgress /\ ~homingActive /\ ~timeoutActive)

\* C39 witness: a move has returned on its time-out, without COMPLETE
C39_MoveTimedOut ==
    /\ pc = "tail"
    /\ cmd.name = "move"
    /\ ~emergencyStop
    /\ sinceActivity > MOVE_TIMEOUT_MS
    /\ resp # <<>>
    /\ resp[Len(resp)] # "COMPLETE"
    /\ ~commandInProgress
    /\ ~timeoutActive

\* C40: a move that returns short of its target after the latch was set or
\* its time-out expired prints no COMPLETE
C40_StoppedMoveNotComplete ==
    [][(pc = "move" /\ pc' = "tail" /\ (emergencyStop \/ isTimeoutExpired)
          /\ ~AtTarget(cmd.args, pos'))
          => \A i \in 1 .. Len(resp') : resp'[i] # "COMPLETE"]_vars

\* C40 witness: a move has returned short of its target after the periodic
\* check inside its loop set the latch
C40_LatchedMoveReturned ==
    /\ pc = "tail"
    /\ cmd.name = "move"
    /\ emergencyStop
    /\ ~AtTarget(cmd.args, pos)
    /\ pos # ZeroPos
    /\ resp # <<>>
    /\ \A i \in 1 .. Len(resp) : resp[i] # "COMPLETE"

====
